---- MODULE Spec2Model ----
(***************************************************************************)
(* Model of the products resource of ShoppyApi (src/routes/products.py):   *)
(* the products table, the four single-row handlers (get, create, update,  *)
(* delete), the identifier parsing and body validation that guard them,    *)
(* and the storage calls (query, commit, refresh) each handler makes.      *)
(*                                                                         *)
(* Spec     : requests are handled one at a time: a request arrives, its   *)
(*            handler runs as one step, the response is sent.              *)
(* SpecConc : two requests overlap; each handler is split at its storage   *)
(*            round trips (the query, then the commit).                    *)
(***************************************************************************)
EXTENDS Integers, Sequences, FiniteSets, TLC

VARIABLES
    store,      \* the products table: primary key (uuid) -> row
    now,        \* the clock read by now() / datetime.datetime.now()
    req,        \* the request received and not yet answered to the client
    resp,       \* the response the handler produced for req
    deleted,    \* history: ids removed by a successful Delete and not inserted since
    sess        \* SpecConc: the request-scoped sessions of the overlapping requests

vars == <<store, now, req, resp, deleted, sess>>

----------------------------------------------------------------------------
(* Bounds of the model *)

MaxClock == 1           \* the clock runs 0..MaxClock

(* Program constants *)

UUIDHexLen == 32        \* uuid.UUID: 32 hexadecimal digits
NameMinLen == 1         \* Field(min_length=1)
NameMaxLen == 100       \* Field(max_length=100)

----------------------------------------------------------------------------
(* Identifier strings and uuid.UUID(product_id) *)

Rep(c, n) == [i \in 1..n |-> c]

HexLower == {"a", "b"}
HexUpper == {"A", "B"}
HexDigits == HexLower \cup HexUpper

Lower(c) == CASE c = "A" -> "a" [] c = "B" -> "b" [] OTHER -> c

Hyphenated(c) ==
    Rep(c, 8) \o <<"-">> \o Rep(c, 4) \o <<"-">> \o Rep(c, 4) \o <<"-">>
              \o Rep(c, 4) \o <<"-">> \o Rep(c, 12)

\* The path parameters tried: plain, braced, and hyphenated upper-case
\* spellings, and strings uuid.UUID rejects (too short, a character that
\* is no hexadecimal digit).
IdStrings ==
    { Rep("a", UUIDHexLen),
      Rep("b", UUIDHexLen),
      Hyphenated("A"),
      <<"{">> \o Rep("b", UUIDHexLen) \o <<"}">>,
      Rep("a", UUIDHexLen - 1),
      <<"g">> \o Rep("a", UUIDHexLen - 1) }

RECURSIVE StripLeft(_)
StripLeft(s) ==
    IF s # <<>> /\ Head(s) \in {"{", "}"} THEN StripLeft(Tail(s)) ELSE s

RECURSIVE StripRight(_)
StripRight(s) ==
    IF s # <<>> /\ s[Len(s)] \in {"{", "}"}
    THEN StripRight(SubSeq(s, 1, Len(s) - 1))
    ELSE s

NotHyphen(c) == c # "-"

\* hex.strip('{}').replace('-', '')
HexOf(s) == SelectSeq(StripRight(StripLeft(s)), NotHyphen)

\* uuid.UUID(s): the value (as its 32 lower-case digits), or ValueError.
ParseUUID(s) ==
    LET hex == HexOf(s) IN
    IF Len(hex) # UUIDHexLen
    THEN [ok |-> FALSE, uuid |-> <<>>]
    ELSE IF \E i \in 1..Len(hex) : hex[i] \notin HexDigits
    THEN [ok |-> FALSE, uuid |-> <<>>]
    ELSE [ok |-> TRUE, uuid |-> [i \in 1..Len(hex) |-> Lower(hex[i])]]

\* str(uuid): the id as a response carries it, 8-4-4-4-12 lower-case digits.
FormatUUID(u) ==
    SubSeq(u, 1, 8) \o <<"-">> \o SubSeq(u, 9, 12) \o <<"-">> \o SubSeq(u, 13, 16)
        \o <<"-">> \o SubSeq(u, 17, 20) \o <<"-">> \o SubSeq(u, 21, UUIDHexLen)

\* The values uuid.uuid4() can return.
UUIDs == { Rep("a", UUIDHexLen), Rep("b", UUIDHexLen) }

----------------------------------------------------------------------------
(* Request bodies: a field is unset, null, or carries a value *)

\* val is read only when kind = "val".
UnsetName  == [kind |-> "unset", val |-> <<>>]
NullName   == [kind |-> "null",  val |-> <<>>]
UnsetPrice == [kind |-> "unset", val |-> 0]
NullPrice  == [kind |-> "null",  val |-> 0]
Val(v) == [kind |-> "val", val |-> v]

ValidNames   == { <<"W">>, Rep("W", NameMaxLen) }
InvalidNames == { <<>>, Rep("W", NameMaxLen + 1) }
ValidPrices   == { 1, 2 }
InvalidPrices == { 0 }

Body(n, p) == [name |-> n, price |-> p]

\* The bodies tried: every combination of unset, null and valid values,
\* and bodies with one field that fails validation.
Bodies ==
    { Body(n, p) : n \in {UnsetName, NullName} \cup {Val(v) : v \in ValidNames},
                   p \in {UnsetPrice, NullPrice} \cup {Val(v) : v \in ValidPrices} }
    \cup { Body(Val(n), p) : n \in InvalidNames, p \in {UnsetPrice, Val(1)} }
    \cup { Body(n, Val(p)) : n \in {UnsetName, Val(<<"W">>)}, p \in InvalidPrices }

NoBody == Body(UnsetName, UnsetPrice)

NameOk(n)  == Len(n) >= NameMinLen /\ Len(n) <= NameMaxLen
PriceOk(p) == p > 0

\* ProductCreate: both fields required, name 1..100 characters, price > 0.
ValidCreate(body) ==
    /\ body.name.kind = "val" /\ NameOk(body.name.val)
    /\ body.price.kind = "val" /\ PriceOk(body.price.val)

\* ProductUpdate: both fields Optional (unset or null pass), a value must
\* meet the constraint.
ValidUpdate(body) ==
    /\ body.name.kind = "val" => NameOk(body.name.val)
    /\ body.price.kind = "val" => PriceOk(body.price.val)

\* product.dict(exclude_unset=True): the keys the body supplied.
UpdateData(body) == { k \in {"name", "price"} : body[k].kind # "unset" }

----------------------------------------------------------------------------
(* The products table and the storage calls *)

Row(n, p, c, u) == [name |-> n, price |-> p, created_at |-> c, updated_at |-> u]

\* ProductBase built from a row (response_model, from_attributes).
Rec(id, row) ==
    [id |-> FormatUUID(id), name |-> row.name, price |-> row.price,
     created_at |-> row.created_at, updated_at |-> row.updated_at]

\* The outcome of a handler: the status, the record returned (none or
\* one), the table afterwards, the storage calls made in order, and the
\* storage exception raised ("none", "integrity", "other").
Result(status, rec, st, calls, exc) ==
    [status |-> status, rec |-> rec, store |-> st, calls |-> calls, exc |-> exc]

\* db.query(Product).filter(Product.id == uuid_obj).first()
QueryFirst(st, u) == IF u \in DOMAIN st THEN <<st[u]>> ELSE <<>>

Insert(st, u, row) == [x \in DOMAIN st \cup {u} |-> IF x = u THEN row ELSE st[x]]

Remove(st, u) == [x \in DOMAIN st \ {u} |-> st[x]]

\* The statuses the except clauses map a storage exception to.
StatusOfCreateError(exc) == IF exc = "integrity" THEN 409 ELSE 500
StatusOfUpdateError(exc) == IF exc = "integrity" THEN 409 ELSE 500
StatusOfDeleteError(exc) == 500

----------------------------------------------------------------------------
(* get_product *)

\* Mutant: a query that finds no row raises instead of returning None.
GetProduct_RaisesOnMissing(st, s, fault) ==
    LET p == ParseUUID(s) IN
    IF ~p.ok THEN Result(400, <<>>, st, <<>>, "none")
    ELSE IF fault = "query" \/ QueryFirst(st, p.uuid) = <<>>
    THEN Result(500, <<>>, st, <<"query">>, "other")
    ELSE Result(200, <<Rec(p.uuid, QueryFirst(st, p.uuid)[1])>>, st, <<"query">>, "none")

GetProduct(st, s, fault) ==
    LET p == ParseUUID(s) IN
    IF ~p.ok THEN Result(400, <<>>, st, <<>>, "none")
    ELSE IF fault = "query" THEN Result(500, <<>>, st, <<"query">>, "other")
    ELSE LET found == QueryFirst(st, p.uuid) IN
         IF found = <<>>
         THEN Result(404, <<>>, st, <<"query">>, "none")
         ELSE Result(200, <<Rec(p.uuid, found[1])>>, st, <<"query">>, "none")

----------------------------------------------------------------------------
(* create_product *)

\* Mutant: the price of the body is not passed on to the new row.
NewProduct_PriceDropped(body, t) == Row(body.name.val, 1, t, t)

\* Product(id=uuid.uuid4(), name=product.name, price=product.price); the
\* timestamps are the server defaults now().
NewProduct(body, t) == Row(body.name.val, body.price.val, t, t)

\* db.add; db.commit: the INSERT violates the primary key when the id is
\* already stored.
CreateCommit(st, t, u, body, fault) ==
    IF fault = "commit" THEN [exc |-> "other", store |-> st]
    ELSE IF u \in DOMAIN st THEN [exc |-> "integrity", store |-> st]
    ELSE [exc |-> "none", store |-> Insert(st, u, NewProduct(body, t))]

CreateProduct(st, t, u, body, fault) ==
    IF ~ValidCreate(body) THEN Result(422, <<>>, st, <<>>, "none")
    ELSE LET c == CreateCommit(st, t, u, body, fault) IN
         IF c.exc # "none"
         THEN Result(StatusOfCreateError(c.exc), <<>>, c.store, <<"commit">>, c.exc)
         ELSE IF fault = "refresh"
         THEN Result(StatusOfCreateError("other"), <<>>, c.store,
                     <<"commit", "refresh">>, "other")
         ELSE Result(201, <<Rec(u, c.store[u])>>, c.store,
                     <<"commit", "refresh">>, "none")

----------------------------------------------------------------------------
(* update_product *)

\* Mutant: updated_at is not assigned.
Assigned_KeepsUpdatedAt(loaded, body, t) ==
    [name  |-> IF "name" \in UpdateData(body) THEN body.name ELSE Val(loaded.name),
     price |-> IF "price" \in UpdateData(body) THEN body.price ELSE Val(loaded.price),
     updated_at |-> Val(loaded.updated_at)]

\* The loaded object after the setattr loop and the updated_at assignment:
\* a supplied key takes the body's value (a value or None), the others
\* keep what the query loaded.
Assigned(loaded, body, t) ==
    [name  |-> IF "name" \in UpdateData(body) THEN body.name ELSE Val(loaded.name),
     price |-> IF "price" \in UpdateData(body) THEN body.price ELSE Val(loaded.price),
     updated_at |-> Val(t)]

\* The columns whose assigned value differs from the loaded one: the SET
\* list of the UPDATE the flush emits.
Dirty(loaded, obj) ==
    { k \in {"name", "price", "updated_at"} :
        obj[k].kind # "val" \/ obj[k].val # loaded[k] }

\* Mutant: the columns accept NULL.
NotNullViolated_Unchecked(obj, cols) == FALSE

\* Column(nullable=False) on name and price.
NotNullViolated(obj, cols) ==
    \E k \in cols \cap {"name", "price"} : obj[k].kind = "null"

\* UPDATE products SET <dirty columns> WHERE id = u, on the row as it is
\* in the table at commit time.
ApplyUpdate(row, obj, cols) ==
    [name       |-> IF "name" \in cols THEN obj.name.val ELSE row.name,
     price      |-> IF "price" \in cols THEN obj.price.val ELSE row.price,
     created_at |-> row.created_at,
     updated_at |-> IF "updated_at" \in cols THEN obj.updated_at.val
                    ELSE row.updated_at]

\* db.commit() of update_product: the flush raises IntegrityError on a
\* NULL in a NOT NULL column, and StaleDataError when the UPDATE matches
\* no row.
UpdateCommit(st, t, u, loaded, body, fault) ==
    LET obj  == Assigned(loaded, body, t)
        cols == Dirty(loaded, obj)
    IN  IF fault = "commit" THEN [exc |-> "other", store |-> st]
        ELSE IF cols = {} THEN [exc |-> "none", store |-> st]
        ELSE IF NotNullViolated(obj, cols) THEN [exc |-> "integrity", store |-> st]
        ELSE IF u \notin DOMAIN st THEN [exc |-> "other", store |-> st]
        ELSE [exc |-> "none",
              store |-> [st EXCEPT ![u] = ApplyUpdate(st[u], obj, cols)]]

\* A handler's first part either answers the request or goes on to the
\* commit with the row its query loaded.
Answer(u, res) == [done |-> TRUE, uuid |-> u, loaded |-> <<>>, res |-> res]
Proceed(st, u)  ==
    [done |-> FALSE, uuid |-> u, loaded |-> QueryFirst(st, u),
     res |-> Result(0, <<>>, st, <<"query">>, "none")]

\* Mutant: no empty-body check.
UpdateQuery_NoEmptyCheck(st, s, body, fault) ==
    LET p == ParseUUID(s) IN
    IF ~ValidUpdate(body)
    THEN Answer(<<>>, Result(422, <<>>, st, <<>>, "none"))
    ELSE IF ~p.ok
    THEN Answer(<<>>, Result(400, <<>>, st, <<>>, "none"))
    ELSE IF fault = "query"
    THEN Answer(p.uuid, Result(500, <<>>, st, <<"query">>, "other"))
    ELSE IF QueryFirst(st, p.uuid) = <<>>
    THEN Answer(p.uuid, Result(404, <<>>, st, <<"query">>, "none"))
    ELSE Proceed(st, p.uuid)

\* Mutant: the empty-body check comes first, before the query.
UpdateQuery_EmptyCheckFirst(st, s, body, fault) ==
    LET p == ParseUUID(s) IN
    IF ~ValidUpdate(body)
    THEN Answer(<<>>, Result(422, <<>>, st, <<>>, "none"))
    ELSE IF ~p.ok \/ UpdateData(body) = {}
    THEN Answer(<<>>, Result(400, <<>>, st, <<>>, "none"))
    ELSE IF fault = "query"
    THEN Answer(p.uuid, Result(500, <<>>, st, <<"query">>, "other"))
    ELSE IF QueryFirst(st, p.uuid) = <<>>
    THEN Answer(p.uuid, Result(404, <<>>, st, <<"query">>, "none"))
    ELSE Proceed(st, p.uuid)

\* Lines 173-199: body validation (before the handler runs), the id
\* check, the query, the not-found check and the empty-body check.
UpdateQuery(st, s, body, fault) ==
    LET p == ParseUUID(s) IN
    IF ~ValidUpdate(body)
    THEN Answer(<<>>, Result(422, <<>>, st, <<>>, "none"))
    ELSE IF ~p.ok
    THEN Answer(<<>>, Result(400, <<>>, st, <<>>, "none"))
    ELSE IF fault = "query"
    THEN Answer(p.uuid, Result(500, <<>>, st, <<"query">>, "other"))
    ELSE IF QueryFirst(st, p.uuid) = <<>>
    THEN Answer(p.uuid, Result(404, <<>>, st, <<"query">>, "none"))
    ELSE IF UpdateData(body) = {}
    THEN Answer(p.uuid, Result(400, <<>>, st, <<"query">>, "none"))
    ELSE Proceed(st, p.uuid)

\* Lines 201-225: the assignments, commit, refresh and the except clauses.
UpdateFinish(st, t, u, loaded, body, fault) ==
    LET c == UpdateCommit(st, t, u, loaded, body, fault) IN
    IF c.exc # "none"
    THEN Result(StatusOfUpdateError(c.exc), <<>>, c.store,
                <<"query", "commit">>, c.exc)
    ELSE IF fault = "refresh" \/ u \notin DOMAIN c.store
    THEN Result(StatusOfUpdateError("other"), <<>>, c.store,
                <<"query", "commit", "refresh">>, "other")
    ELSE Result(200, <<Rec(u, c.store[u])>>, c.store,
                <<"query", "commit", "refresh">>, "none")

UpdateProduct(st, t, s, body, fault) ==
    LET q == UpdateQuery(st, s, body, fault) IN
    IF q.done THEN q.res
    ELSE UpdateFinish(st, t, q.uuid, q.loaded[1], body, fault)

----------------------------------------------------------------------------
(* delete_product *)

\* Mutant: the query runs on the raw path parameter, before the id check.
DeleteQuery_QueryBeforeIdCheck(st, s, fault) ==
    LET p == ParseUUID(s) IN
    IF fault = "query"
    THEN Answer(p.uuid, Result(500, <<>>, st, <<"query">>, "other"))
    ELSE IF QueryFirst(st, p.uuid) = <<>>
    THEN Answer(p.uuid, Result(404, <<>>, st, <<"query">>, "none"))
    ELSE Proceed(st, p.uuid)

\* Lines 229-247: the id check, the query and the not-found check.
DeleteQuery(st, s, fault) ==
    LET p == ParseUUID(s) IN
    IF ~p.ok
    THEN Answer(<<>>, Result(400, <<>>, st, <<>>, "none"))
    ELSE IF fault = "query"
    THEN Answer(p.uuid, Result(500, <<>>, st, <<"query">>, "other"))
    ELSE IF QueryFirst(st, p.uuid) = <<>>
    THEN Answer(p.uuid, Result(404, <<>>, st, <<"query">>, "none"))
    ELSE Proceed(st, p.uuid)

\* Mutant: the delete is never committed.
DeleteCommit_NotCommitted(st, u, fault, stale) ==
    IF fault = "commit" THEN [exc |-> "other", store |-> st]
    ELSE [exc |-> "none", store |-> st]

\* db.delete; db.commit: DELETE FROM products WHERE id = u.  When the row
\* is no longer there the statement matches no row, which the session
\* either only warns about or raises on (stale).
DeleteCommit(st, u, fault, stale) ==
    IF fault = "commit" THEN [exc |-> "other", store |-> st]
    ELSE IF u \notin DOMAIN st
    THEN [exc |-> IF stale = "raise" THEN "other" ELSE "none", store |-> st]
    ELSE [exc |-> "none", store |-> Remove(st, u)]

\* Lines 249-261.
DeleteFinish(st, u, fault, stale) ==
    LET c == DeleteCommit(st, u, fault, stale) IN
    IF c.exc # "none"
    THEN Result(StatusOfDeleteError(c.exc), <<>>, c.store,
                <<"query", "commit">>, c.exc)
    ELSE Result(200, <<>>, c.store, <<"query", "commit">>, "none")

DeleteProduct(st, s, fault, stale) ==
    LET q == DeleteQuery(st, s, fault) IN
    IF q.done THEN q.res
    ELSE DeleteFinish(st, q.uuid, fault, stale)

----------------------------------------------------------------------------
(* The state machine: one request at a time *)

Faults == {"none", "query", "commit", "refresh"}

\* The requests a client sends.  fault is where the storage layer fails
\* while this request is served, if the handler gets there.
Request(op, s, body, fault) == [op |-> op, id |-> s, body |-> body, fault |-> fault]

NoRequest == Request("none", <<>>, NoBody, "none")

Requests ==
    { Request("get", s, NoBody, f) : s \in IdStrings, f \in {"none", "query"} }
    \cup { Request("create", <<>>, b, f) :
             b \in Bodies, f \in {"none", "commit", "refresh"} }
    \cup { Request("update", s[1], s[2], f) : s \in IdStrings \X Bodies, f \in Faults }
    \cup { Request("delete", s, NoBody, f) :
             s \in IdStrings, f \in {"none", "query", "commit"} }

\* What the client gets back, with the storage calls the handler made.
Response(r) ==
    [status |-> r.status, rec |-> r.rec, calls |-> r.calls, exc |-> r.exc]

NoResponse == [status |-> 0, rec |-> <<>>, calls |-> <<>>, exc |-> "none"]

NoSessions == <<>>

Init ==
    /\ store = <<>>
    /\ now = 0
    /\ req = NoRequest
    /\ resp = NoResponse
    /\ deleted = {}
    /\ sess = NoSessions

Idle == req = NoRequest
Pending == req # NoRequest /\ resp = NoResponse
Answered == resp # NoResponse

\* Time passes between and before requests; a handler runs in one step.
Tick ==
    /\ resp = NoResponse
    /\ now < MaxClock
    /\ now' = now + 1
    /\ UNCHANGED <<store, req, resp, deleted, sess>>

\* A client request arrives.
Receive(r) ==
    /\ Idle
    /\ req' = r
    /\ UNCHANGED <<store, now, resp, deleted, sess>>

HandleGet ==
    /\ Pending /\ req.op = "get"
    /\ resp' = Response(GetProduct(store, req.id, req.fault))
    /\ UNCHANGED <<store, now, req, deleted, sess>>

\* u is the value uuid.uuid4() returns.
HandleCreate(u) ==
    /\ Pending /\ req.op = "create"
    /\ LET r == CreateProduct(store, now, u, req.body, req.fault) IN
         /\ store' = r.store
         /\ resp' = Response(r)
         /\ deleted' = IF u \in DOMAIN r.store THEN deleted \ {u} ELSE deleted
    /\ UNCHANGED <<now, req, sess>>

HandleUpdate ==
    /\ Pending /\ req.op = "update"
    /\ LET r == UpdateProduct(store, now, req.id, req.body, req.fault) IN
         /\ store' = r.store
         /\ resp' = Response(r)
    /\ UNCHANGED <<now, req, deleted, sess>>

HandleDelete ==
    /\ Pending /\ req.op = "delete"
    /\ LET r == DeleteProduct(store, req.id, req.fault, "warn") IN
         /\ store' = r.store
         /\ resp' = Response(r)
         /\ deleted' = IF r.status = 200
                       THEN deleted \cup {ParseUUID(req.id).uuid}
                       ELSE deleted
    /\ UNCHANGED <<now, req, sess>>

\* The response is sent; the service is ready for the next request.
Respond ==
    /\ Answered
    /\ req' = NoRequest
    /\ resp' = NoResponse
    /\ UNCHANGED <<store, now, deleted, sess>>

Next ==
    \/ Tick
    \/ \E r \in Requests : Receive(r)
    \/ HandleGet
    \/ \E u \in UUIDs : HandleCreate(u)
    \/ HandleUpdate
    \/ HandleDelete
    \/ Respond

Spec == Init /\ [][Next]_vars

----------------------------------------------------------------------------
(* Properties of the sequential service (Spec) *)

\* The id the pending or answered request names, parsed.
ReqId == ParseUUID(req.id)

\* This step is a handler answering the pending request.
Handles(op) == Pending /\ req.op = op /\ resp' # NoResponse

\* C1: every stored product has price > 0 and a non-empty name, in every
\* state, whatever requests (null fields included) were made.
C1_StoredProductsValid ==
    \A u \in DOMAIN store : Len(store[u].name) > 0 /\ store[u].price > 0

\* An Update supplying a field as null on a stored product was answered.
C1_Witness ==
    /\ Answered /\ req.op = "update"
    /\ req.body.name.kind = "null" \/ req.body.price.kind = "null"
    /\ ReqId.ok /\ ReqId.uuid \in DOMAIN store
    /\ resp.status = 409

\* C2: a valid Create that meets no storage failure returns 201 with the
\* name and price of the input, price > 0, and a Get by the returned id
\* right afterwards returns the same record.
C2_CreateThenGet ==
    (Answered /\ req.op = "create" /\ ValidCreate(req.body) /\ resp.exc = "none")
    => /\ resp.status = 201
       /\ Len(resp.rec) = 1
       /\ resp.rec[1].name = req.body.name.val
       /\ resp.rec[1].price = req.body.price.val
       /\ resp.rec[1].price > 0
       /\ LET g == GetProduct(store, resp.rec[1].id, "none") IN
            g.status = 200 /\ g.rec = resp.rec

C2_Witness ==
    /\ Answered /\ req.op = "create" /\ resp.status = 201
    /\ Len(resp.rec[1].name) = NameMaxLen /\ resp.rec[1].price = 2

\* C3: Get, Update (empty body or not) and Delete on a well-formed id that
\* is not stored answer 404, not 500, and leave the table alone, when the
\* query itself does not fail.
C3_NotFound ==
    [][ ( /\ Handles("get") \/ Handles("update") \/ Handles("delete")
          /\ ValidUpdate(req.body)
          /\ ReqId.ok /\ ReqId.uuid \notin DOMAIN store
          /\ req.fault # "query" )
        => (resp'.status = 404 /\ resp'.exc = "none" /\ store' = store) ]_vars

C3_Witness ==
    /\ Answered /\ req.op = "update" /\ UpdateData(req.body) = {}
    /\ ReqId.ok /\ ReqId.uuid \notin DOMAIN store /\ DOMAIN store # {}
    /\ resp.status = 404

\* C4: Get, Update and Delete on a string uuid.UUID rejects answer with a
\* client error (400; 422 when the Update body also fails validation)
\* and make no storage call.
C4_MalformedId ==
    (Answered /\ req.op \in {"get", "update", "delete"} /\ ~ReqId.ok)
    => /\ resp.calls = <<>>
       /\ resp.exc = "none"
       /\ resp.status = IF ValidUpdate(req.body) THEN 400 ELSE 422

C4_Witness ==
    /\ Answered /\ req.op = "delete" /\ ~ReqId.ok
    /\ Len(req.id) = UUIDHexLen /\ resp.status = 400

\* C5: once a Delete of an id has succeeded, and until a Create inserts
\* that id again, a Delete of it answers 404 and removes nothing.
C5_SecondDelete ==
    [][ ( /\ Handles("delete")
          /\ ReqId.ok /\ ReqId.uuid \in deleted
          /\ req.fault # "query" )
        => (resp'.status = 404 /\ store' = store) ]_vars

\* A second Delete was answered after requests on the other product.
C5_Witness ==
    /\ Answered /\ req.op = "delete" /\ resp.status = 404
    /\ ReqId.ok /\ ReqId.uuid \in deleted
    /\ \E u \in DOMAIN store : store[u].updated_at > store[u].created_at

\* C6: an Update with no fields on a stored product answers 400 and leaves
\* the table, updated_at included, unchanged.
C6_EmptyUpdate ==
    [][ ( /\ Handles("update")
          /\ UpdateData(req.body) = {}
          /\ ReqId.ok /\ ReqId.uuid \in DOMAIN store
          /\ req.fault # "query" )
        => (resp'.status = 400 /\ resp'.rec = <<>> /\ store' = store) ]_vars

\* Answered at a time later than the product's updated_at.
C6_Witness ==
    /\ Answered /\ req.op = "update" /\ UpdateData(req.body) = {}
    /\ ReqId.ok /\ ReqId.uuid \in DOMAIN store
    /\ store[ReqId.uuid].updated_at < now
    /\ resp.status = 400

\* C7: a successful Update sets exactly the supplied fields and updated_at
\* (to the time of the update); the omitted fields, the id and created_at
\* keep their values, no other row changes, and the record returned is
\* the row as stored.
C7_UpdateFrame ==
    [][ (Handles("update") /\ resp'.status = 200)
        => LET u == ReqId.uuid IN
           /\ u \in DOMAIN store
           /\ DOMAIN store' = DOMAIN store
           /\ \A x \in DOMAIN store \ {u} : store'[x] = store[x]
           /\ store'[u].name = IF req.body.name.kind = "unset"
                               THEN store[u].name ELSE req.body.name.val
           /\ store'[u].price = IF req.body.price.kind = "unset"
                                THEN store[u].price ELSE req.body.price.val
           /\ store'[u].created_at = store[u].created_at
           /\ store'[u].updated_at = now
           /\ resp'.rec = <<Rec(u, store'[u])>> ]_vars

\* A price-only Update succeeded, later than the creation, with another
\* product stored.
C7_Witness ==
    /\ Answered /\ req.op = "update" /\ resp.status = 200
    /\ req.body.name.kind = "unset" /\ req.body.price.kind = "val"
    /\ resp.rec[1].updated_at > resp.rec[1].created_at
    /\ Len(resp.rec[1].name) = NameMaxLen
    /\ Cardinality(DOMAIN store) = 2

\* C9 as stated: an Update with no fields is rejected with 400 before any
\* storage query is issued.
C9_EmptyUpdateBeforeStorage ==
    (Answered /\ req.op = "update" /\ UpdateData(req.body) = {})
    => (resp.status = 400 /\ resp.calls = <<>>)

\* C9 amended: a body failing validation or a malformed id is rejected
\* before any storage call; an Update with no fields on a well-formed id
\* is answered only after the one query (400 if it found the product, 404
\* if not, 500 if it failed) and never reaches a commit.
C9_EmptyUpdateAfterQuery ==
    (Answered /\ req.op = "update")
    => /\ (~ValidUpdate(req.body) \/ ~ReqId.ok)
            => (resp.status \in {400, 422} /\ resp.calls = <<>>)
       /\ (ValidUpdate(req.body) /\ ReqId.ok /\ UpdateData(req.body) = {})
            => /\ resp.calls = <<"query">>
               /\ resp.status = IF req.fault = "query" THEN 500
                                ELSE IF ReqId.uuid \in DOMAIN store THEN 400
                                ELSE 404

C9_Witness ==
    /\ Answered /\ req.op = "update" /\ UpdateData(req.body) = {}
    /\ resp.status = 400 /\ resp.calls = <<"query">>

\* C10 as stated: when the storage layer fails during Create, Update or
\* Delete the answer is 409 (constraint violation on Create/Update) or
\* 500 (any other failure), and the table is what it was before.
C10_FailureLeavesTable ==
    [][ ( /\ Handles("create") \/ Handles("update") \/ Handles("delete")
          /\ resp'.exc # "none" )
        => /\ resp'.status = IF resp'.exc = "integrity" /\ req.op # "delete"
                             THEN 409 ELSE 500
           /\ store' = store ]_vars

----------------------------------------------------------------------------
(* Two overlapping requests (SpecConc).  Each request has its own session; *)
(* a handler's query and its commit are separate round trips to the        *)
(* storage, and the other request's round trips may fall between them.     *)
(* The table is set up, and time passes, while no request is in progress.  *)

Sessions == {1, 2}

Session(pc, op, s, body, u, loaded, base, status, rec) ==
    [pc |-> pc, op |-> op, id |-> s, body |-> body, uuid |-> u,
     loaded |-> loaded, base |-> base, status |-> status, rec |-> rec]

IdleSession == Session("idle", "none", <<>>, NoBody, <<>>, <<>>, <<>>, 0, <<>>)

AllIdle == \A r \in Sessions : sess[r].pc = "idle"

\* The overlapping requests tried: updates and deletes of the stored ids.
ConcIdStrings == { Rep("a", UUIDHexLen), <<"{">> \o Rep("b", UUIDHexLen) \o <<"}">> }
ConcBodies ==
    { Body(UnsetName, Val(1)), Body(UnsetName, Val(2)),
      Body(Val(Rep("W", NameMaxLen)), UnsetPrice) }
ConcRequests ==
    { Request("update", s, b, "none") : s \in ConcIdStrings, b \in ConcBodies }
    \cup { Request("delete", s, NoBody, "none") : s \in ConcIdStrings }

InitConc ==
    /\ store = <<>>
    /\ now = 0
    /\ req = NoRequest
    /\ resp = NoResponse
    /\ deleted = {}
    /\ sess = [r \in Sessions |-> IdleSession]

TickConc ==
    /\ AllIdle
    /\ now < MaxClock
    /\ now' = now + 1
    /\ UNCHANGED <<store, req, resp, deleted, sess>>

\* create_product: one round trip.
CreateConc(u, body) ==
    /\ AllIdle
    /\ ValidCreate(body)
    /\ store' = CreateProduct(store, now, u, body, "none").store
    /\ UNCHANGED <<now, req, resp, deleted, sess>>

\* The table as it was when the first of the overlapping requests began.
BaseFor(r) ==
    IF AllIdle THEN store
    ELSE sess[CHOOSE o \in Sessions \ {r} : sess[o].pc # "idle"].base

\* The first part of update_product or delete_product, up to and including
\* its query: it answers, or goes on holding the row it loaded.
Begin(r, q) ==
    /\ sess[r].pc = "idle"
    /\ LET step == IF q.op = "update"
                   THEN UpdateQuery(store, q.id, q.body, q.fault)
                   ELSE DeleteQuery(store, q.id, q.fault)
       IN sess' = [sess EXCEPT ![r] =
                     Session(IF step.done THEN "done" ELSE "queried",
                             q.op, q.id, q.body, step.uuid, step.loaded,
                             BaseFor(r), step.res.status, step.res.rec)]
    /\ UNCHANGED <<store, now, req, resp, deleted>>

\* The second part: the commit (and refresh) against the table as it is now.
Commit(r, stale) ==
    /\ sess[r].pc = "queried"
    /\ LET c == sess[r]
           res == IF c.op = "update"
                  THEN UpdateFinish(store, now, c.uuid, c.loaded[1], c.body, "none")
                  ELSE DeleteFinish(store, c.uuid, "none", stale)
       IN /\ store' = res.store
          /\ sess' = [sess EXCEPT ![r] =
                        Session("done", c.op, c.id, c.body, c.uuid, c.loaded,
                                c.base, res.status, res.rec)]
    /\ UNCHANGED <<now, req, resp, deleted>>

\* Both responses are sent.
Close ==
    /\ \A r \in Sessions : sess[r].pc = "done"
    /\ sess' = [r \in Sessions |-> IdleSession]
    /\ UNCHANGED <<store, now, req, resp, deleted>>

NextConc ==
    \/ TickConc
    \/ \E u \in UUIDs, b \in Bodies : CreateConc(u, b)
    \/ \E r \in Sessions, q \in ConcRequests : Begin(r, q)
    \/ \E r \in Sessions, stale \in {"warn", "raise"} : Commit(r, stale)
    \/ Close

SpecConc == InitConc /\ [][NextConc]_vars

\* The handler of a session's request run as one step on table st.
RunAlone(st, c) ==
    IF c.op = "update"
    THEN UpdateProduct(st, now, c.id, c.body, "none")
    ELSE DeleteProduct(st, c.id, "none", "warn")

\* Sessions a then b, run one after the other from the base table, answer
\* what a and b were answered and end in the table as it is.
SerialOrder(a, b) ==
    LET ra == RunAlone(sess[a].base, sess[a])
        rb == RunAlone(ra.store, sess[b])
    IN  /\ ra.status = sess[a].status /\ ra.rec = sess[a].rec
        /\ rb.status = sess[b].status /\ rb.rec = sess[b].rec
        /\ rb.store = store

\* C8 in general: whatever the interleaving of the queries and commits of
\* two requests, their responses and the final table are those of one of
\* the two serial executions.
C8_Serializable ==
    (\A r \in Sessions : sess[r].pc = "done")
    => (SerialOrder(1, 2) \/ SerialOrder(2, 1))

====
